---- MODULE Spec2Model ----
(***************************************************************************)
(* Model of Modeltime (objects/util/base/source/model_time.cpp): the       *)
(* year/period discretization of the simulation.  The object is            *)
(* constructed with every elemental member zero, XMLParse reads the nine   *)
(* configuration scalars, set() derives the period tables, and             *)
(* getyr_to_per / getBasePeriod / getStartYear / getEndYear / toDebugXML   *)
(* read them.                                                              *)
(* Vectors are functions over 0..n-1 (the C++ indices), the std::map       *)
(* yearToModelPeriod is a function whose DOMAIN is its key set.            *)
(***************************************************************************)
EXTENDS Integers, Sequences, FiniteSets, TLC

VARIABLES
    startYear, interYear1, interYear2, endYear,      \* configuration
    dataEndYear, dataTimeStep,
    timeStep1, timeStep2, timeStep3,
    numberOfPeriods1, numberOfPeriods1a,             \* derived counts
    numberOfPeriods2, numberOfPeriods2a,
    numberOfPeriods3, numberOfPeriods3a,
    maxPeriod, maxDataPeriod,
    periodToTimeStep, modelPeriodToYear,             \* std::vector<int>
    dataOffset, dataPeriodToModelPeriod,             \* std::vector<int>
    yearToModelPeriod,                               \* std::map<int,int>
    pc,        \* lifecycle: "constructed", "parsed", "finalized", "crashed"
    call,      \* the most recent operation: [op, at (pc when invoked), arg, ret]
    mainLog    \* messages the most recent operation wrote to main_log

config == <<startYear, interYear1, interYear2, endYear, dataEndYear,
            dataTimeStep, timeStep1, timeStep2, timeStep3>>

derived == <<numberOfPeriods1, numberOfPeriods1a, numberOfPeriods2,
             numberOfPeriods2a, numberOfPeriods3, numberOfPeriods3a,
             maxPeriod, maxDataPeriod, periodToTimeStep, modelPeriodToYear,
             dataOffset, dataPeriodToModelPeriod, yearToModelPeriod>>

vars == <<config, derived, pc, call, mainLog>>

----------------------------------------------------------------------------
(* Bounds of the explored configurations.                                  *)

\* longest era (interYear1-startYear, interYear2-interYear1, endYear-interYear2)
MaxSpan == 2

\* the values of timeStep1, timeStep2, timeStep3 and dataTimeStep
Steps == {1, 2}

\* how far dataEndYear may lie beyond endYear
MaxDataBeyond == 1

StartYears == {2000}

\* Scenario A of the specification (section 8).
ScenarioA ==
    [startYear |-> 1990, interYear1 |-> 2005, interYear2 |-> 2035,
     endYear |-> 2095, timeStep1 |-> 5, timeStep2 |-> 5, timeStep3 |-> 10,
     dataEndYear |-> 2005, dataTimeStep |-> 5]

\* Scenario B of the specification: an uneven first era (7 years, step 5);
\* here the other two eras are uneven too (13 by 5, 25 by 10) and the data
\* grid 2000, 2015, ..., 2060 runs past endYear.
ScenarioB ==
    [startYear |-> 2000, interYear1 |-> 2007, interYear2 |-> 2020,
     endYear |-> 2045, timeStep1 |-> 5, timeStep2 |-> 5, timeStep3 |-> 10,
     dataEndYear |-> 2060, dataTimeStep |-> 15]

\* startYear < interYear1 < interYear2 < endYear, steps >= 1,
\* startYear <= dataEndYear <= endYear + MaxDataBeyond.
BoundedConfigs ==
    { [startYear |-> s, interYear1 |-> s + a, interYear2 |-> s + a + b,
       endYear |-> s + a + b + c, timeStep1 |-> t1, timeStep2 |-> t2,
       timeStep3 |-> t3, dataEndYear |-> s + d, dataTimeStep |-> dt] :
         s \in StartYears, a \in 1..MaxSpan, b \in 1..MaxSpan,
         c \in 1..MaxSpan, t1 \in Steps, t2 \in Steps,
         t3 \in Steps, dt \in Steps,
         d \in 0..(3 * MaxSpan + MaxDataBeyond) }

\* The documents XMLParse is given: valid configurations only.
Configs ==
    { c \in BoundedConfigs : c.dataEndYear <= c.endYear + MaxDataBeyond }
    \cup {ScenarioA, ScenarioB}

----------------------------------------------------------------------------
(* C++ int arithmetic: / truncates toward zero, % takes the dividend's     *)
(* sign.  Divisors are positive in every valid configuration.              *)

CDiv(a, b) == IF a >= 0 THEN a \div b ELSE -((-a) \div b)

CMod(a, b) == a - b * CDiv(a, b)

EmptyVec == [i \in {} |-> 0]

Size(v) == Cardinality(DOMAIN v)

\* Variant: the vector grows by n on every call, as v.resize(v.size() + n)
\* (or n push_backs) would.
Resize_grow(v, n) ==
    [i \in 0..(Size(v) + n - 1) |-> IF i \in DOMAIN v THEN v[i] ELSE 0]

\* std::vector<int>::resize(n): keeps the first n elements, zero-fills.
Resize(v, n) == [i \in 0..(n - 1) |-> IF i \in DOMAIN v THEN v[i] ELSE 0]

\* std::map<int,int>::operator[]( k ) = x
MapSet(m, k, x) == [y \in (DOMAIN m) \cup {k} |-> IF y = k THEN x ELSE m[y]]

\* std::map<int,int>::operator[]( k ) read: a missing key is inserted with 0
MapTouch(m, k) == IF k \in DOMAIN m THEN m ELSE MapSet(m, k, 0)

----------------------------------------------------------------------------
(* Modeltime::set, lines 177-272, as functions of the configuration c      *)
(* (a record of the nine scalars) and of the containers' previous values.  *)

Rem1(c) == CMod(c.interYear1 - c.startYear, c.timeStep1)

\* Variant: the remainder of era 2 is taken by the step of era 1.
Rem2_timeStep1(c) == CMod(c.interYear2 - c.interYear1, c.timeStep1)

Rem2(c) == CMod(c.interYear2 - c.interYear1, c.timeStep2)

Rem3(c) == CMod(c.endYear - c.interYear2, c.timeStep3)

\* Variant: the base period is not counted.
NumberOfPeriods1_noFirstYear(c) == CDiv(c.interYear1 - c.startYear, c.timeStep1)

\* +1 for first year
NumberOfPeriods1(c) == CDiv(c.interYear1 - c.startYear, c.timeStep1) + 1

NumberOfPeriods2(c) == CDiv(c.interYear2 - c.interYear1, c.timeStep2)

NumberOfPeriods3(c) == CDiv(c.endYear - c.interYear2, c.timeStep3)

\* Variant: a remainder of one year gets no period of its own.
AddRemainderPeriod_gt1(n, rem) == IF rem > 1 THEN n + 1 ELSE n

\* one more for remainder year
AddRemainderPeriod(n, rem) == IF rem # 0 THEN n + 1 ELSE n

NumberOfPeriods1a(c) == AddRemainderPeriod(NumberOfPeriods1(c), Rem1(c))

NumberOfPeriods2a(c) == AddRemainderPeriod(NumberOfPeriods2(c), Rem2(c))

NumberOfPeriods3a(c) == AddRemainderPeriod(NumberOfPeriods3(c), Rem3(c))

\* Variant: the three tests are chained with else, so one call warns once.
SetWarnings_elseIf(c) ==
    IF Rem1(c) # 0 THEN <<[level |-> "WARNING", era |-> 1]>>
    ELSE IF Rem2(c) # 0 THEN <<[level |-> "WARNING", era |-> 2]>>
    ELSE IF Rem3(c) # 0 THEN <<[level |-> "WARNING", era |-> 3]>>
    ELSE <<>>

SetWarnings(c) ==
    (IF Rem1(c) # 0 THEN <<[level |-> "WARNING", era |-> 1]>> ELSE <<>>)
    \o (IF Rem2(c) # 0 THEN <<[level |-> "WARNING", era |-> 2]>> ELSE <<>>)
    \o (IF Rem3(c) # 0 THEN <<[level |-> "WARNING", era |-> 3]>> ELSE <<>>)

MaxPeriod(c) == NumberOfPeriods1a(c) + NumberOfPeriods2a(c) + NumberOfPeriods3a(c)

\* +1 for first year
MaxDataPeriod(c) == CDiv(c.dataEndYear - c.startYear, c.dataTimeStep) + 1

\* for( int i = lo; i < hi; i++ ) v[i] = x;
RECURSIVE FillLoop(_, _, _, _)
FillLoop(v, i, hi, x) ==
    IF i < hi THEN FillLoop([v EXCEPT ![i] = x], i + 1, hi, x) ELSE v

\* Variant: a remainder period is given its era's nominal step.
PeriodToTimeStep_nominalRemainder(c, old) ==
    LET n1  == NumberOfPeriods1(c)
        n1a == NumberOfPeriods1a(c)
        n2  == NumberOfPeriods2(c)
        n2a == NumberOfPeriods2a(c)
        n3  == NumberOfPeriods3(c)
        n3a == NumberOfPeriods3a(c)
        v0  == Resize(old, MaxPeriod(c))
        v1  == FillLoop(v0, 0, n1a, c.timeStep1)
        v2  == FillLoop(v1, n1a, n1a + n2a, c.timeStep2)
    IN  FillLoop(v2, n1a + n2a, n1a + n2a + n3a, c.timeStep3)

PeriodToTimeStep(c, old) ==
    LET n1  == NumberOfPeriods1(c)
        n1a == NumberOfPeriods1a(c)
        n2  == NumberOfPeriods2(c)
        n2a == NumberOfPeriods2a(c)
        n3  == NumberOfPeriods3(c)
        n3a == NumberOfPeriods3a(c)
        v0  == Resize(old, MaxPeriod(c))
        v1  == FillLoop(v0, 0, n1, c.timeStep1)
        v2  == FillLoop(v1, n1, n1a, Rem1(c))
        v3  == FillLoop(v2, n1a, n1a + n2, c.timeStep2)
        v4  == FillLoop(v3, n1a + n2, n1a + n2a, Rem2(c))
        v5  == FillLoop(v4, n1a + n2a, n1a + n2a + n3, c.timeStep3)
    IN  FillLoop(v5, n1a + n2a + n3, n1a + n2a + n3a, Rem3(c))

\* Variant: the years between two periods go to the earlier period.
RECURSIVE InnerYears_earlier(_, _, _, _, _)
InnerYears_earlier(y2p, baseyr, y, step, i) ==
    IF y < step
    THEN InnerYears_earlier(MapSet(y2p, baseyr + y, i - 1), baseyr, y + 1, step, i)
    ELSE y2p

\* for( int y = 1; y < step; y++ ) yearToModelPeriod[ baseyr + y ] = i;
RECURSIVE InnerYears(_, _, _, _, _)
InnerYears(y2p, baseyr, y, step, i) ==
    IF y < step
    THEN InnerYears(MapSet(y2p, baseyr + y, i), baseyr, y + 1, step, i)
    ELSE y2p

\* Variant: the year of period i is advanced by the step of period i - 1.
WalkStep_prevStep(w, i, pts) ==
    LET yr == w.baseyr + pts[i - 1]
        m1 == MapSet(w.y2p, yr, i)
        m2 == IF pts[i] > 1 THEN InnerYears(m1, w.baseyr, 1, pts[i], i) ELSE m1
    IN  [baseyr |-> w.baseyr + pts[i - 1],
         y2p    |-> m2,
         p2y    |-> [w.p2y EXCEPT ![i] = yr]]

\* One iteration of the loop of lines 244-255 on w = [baseyr, y2p, p2y].
WalkStep(w, i, pts) ==
    LET yr == w.baseyr + pts[i]
        m1 == MapSet(w.y2p, yr, i)
        m2 == IF pts[i] > 1 THEN InnerYears(m1, w.baseyr, 1, pts[i], i) ELSE m1
    IN  [baseyr |-> w.baseyr + pts[i],
         y2p    |-> m2,
         p2y    |-> [w.p2y EXCEPT ![i] = yr]]

\* for( int i = 1; i < maxPeriod; i++ ) ...
RECURSIVE WalkLoop(_, _, _, _)
WalkLoop(w, i, maxP, pts) ==
    IF i < maxP THEN WalkLoop(WalkStep(w, i, pts), i + 1, maxP, pts) ELSE w

\* Lines 238-255: period 0 is startYear, then the walk.
ModelYears(c, pts, oldY2P, oldP2Y) ==
    LET baseyr == c.startYear
        w0 == [baseyr |-> baseyr,
               y2p    |-> MapSet(oldY2P, baseyr, 0),
               p2y    |-> [Resize(oldP2Y, MaxPeriod(c)) EXCEPT ![0] = baseyr]]
    IN  WalkLoop(w0, 1, MaxPeriod(c), pts)

\* Variant: the offset is the ratio also when the grids have equal size.
DataOffsetValue_ratio(c, pts, m) == CDiv(c.dataTimeStep, pts[m])

\* Lines 264-269: the offset of a data period aligned to model period m.
DataOffsetValue(c, pts, m) ==
    IF MaxDataPeriod(c) = MaxPeriod(c)
    THEN 0
    ELSE CDiv(c.dataTimeStep, pts[m])

\* One iteration of the loop of lines 262-271 on d = [y2p, off, d2m].
DataStep(d, i, c, pts) ==
    LET yr   == c.startYear + i * c.dataTimeStep
        y2p1 == MapTouch(d.y2p, yr)
        m    == y2p1[yr]
    IN  [y2p |-> y2p1,
         off |-> [d.off EXCEPT ![i] = DataOffsetValue(c, pts, m)],
         d2m |-> [d.d2m EXCEPT ![i] = m]]

\* for( int i = 0; i < maxDataPeriod; i++ ) ...
RECURSIVE DataLoop(_, _, _, _)
DataLoop(d, i, c, pts) ==
    IF i < MaxDataPeriod(c)
    THEN DataLoop(DataStep(d, i, c, pts), i + 1, c, pts)
    ELSE d

\* Lines 257-271.
DataPeriods(c, pts, y2p, oldOff, oldD2M) ==
    DataLoop([y2p |-> y2p,
              off |-> Resize(oldOff, MaxDataPeriod(c)),
              d2m |-> Resize(oldD2M, MaxDataPeriod(c))], 0, c, pts)

----------------------------------------------------------------------------
(* Modeltime::getyr_to_per, lines 290-300.                                 *)

\* yearToModelPeriod.find( year ) != yearToModelPeriod.end()
Found(y2p, year) == year \in DOMAIN y2p

\* Variant: the lookup returns the key's position in the map, not its value.
getyr_to_per_rank(y2p, year) ==
    IF Found(y2p, year)
    THEN Cardinality({k \in DOMAIN y2p : k < year})
    ELSE 0

getyr_to_per(y2p, year) == IF Found(y2p, year) THEN y2p[year] ELSE 0

getyr_to_per_log(y2p, year) ==
    IF Found(y2p, year) THEN <<>> ELSE <<[level |-> "ERROR", year |-> year]>>

----------------------------------------------------------------------------
(* The state machine.                                                      *)

\* The configuration the object holds.
Cur ==
    [startYear |-> startYear, interYear1 |-> interYear1,
     interYear2 |-> interYear2, endYear |-> endYear,
     timeStep1 |-> timeStep1, timeStep2 |-> timeStep2,
     timeStep3 |-> timeStep3, dataEndYear |-> dataEndYear,
     dataTimeStep |-> dataTimeStep]

NoCall == [op |-> "none", at |-> "constructed", arg |-> 0, ret |-> 0]

\* Modeltime::Modeltime(): initElementalMembers, empty containers.
Init ==
    /\ startYear = 0 /\ interYear1 = 0 /\ interYear2 = 0 /\ endYear = 0
    /\ dataEndYear = 0 /\ dataTimeStep = 0
    /\ timeStep1 = 0 /\ timeStep2 = 0 /\ timeStep3 = 0
    /\ numberOfPeriods1 = 0 /\ numberOfPeriods1a = 0
    /\ numberOfPeriods2 = 0 /\ numberOfPeriods2a = 0
    /\ numberOfPeriods3 = 0 /\ numberOfPeriods3a = 0
    /\ maxPeriod = 0 /\ maxDataPeriod = 0
    /\ periodToTimeStep = EmptyVec /\ modelPeriodToYear = EmptyVec
    /\ dataOffset = EmptyVec /\ dataPeriodToModelPeriod = EmptyVec
    /\ yearToModelPeriod = EmptyVec
    /\ pc = "constructed"
    /\ call = NoCall
    /\ mainLog = <<>>

\* Modeltime::XMLParse on a document holding the nine known elements.
XMLParse ==
    /\ pc = "constructed"
    /\ \E c \in Configs :
          /\ startYear' = c.startYear
          /\ interYear1' = c.interYear1
          /\ interYear2' = c.interYear2
          /\ endYear' = c.endYear
          /\ timeStep1' = c.timeStep1
          /\ timeStep2' = c.timeStep2
          /\ timeStep3' = c.timeStep3
          /\ dataEndYear' = c.dataEndYear
          /\ dataTimeStep' = c.dataTimeStep
    /\ pc' = "parsed"
    /\ call' = [op |-> "XMLParse", at |-> pc, arg |-> 0, ret |-> 0]
    /\ mainLog' = <<>>
    /\ UNCHANGED derived

\* Modeltime::set, run on the parsed configuration (and again after it).
Set ==
    /\ pc \in {"parsed", "finalized"}
    /\ LET c   == Cur
           pts == PeriodToTimeStep(c, periodToTimeStep)
           w   == ModelYears(c, pts, yearToModelPeriod, modelPeriodToYear)
           d   == DataPeriods(c, pts, w.y2p, dataOffset, dataPeriodToModelPeriod)
       IN  /\ numberOfPeriods1' = NumberOfPeriods1(c)
           /\ numberOfPeriods2' = NumberOfPeriods2(c)
           /\ numberOfPeriods3' = NumberOfPeriods3(c)
           /\ numberOfPeriods1a' = NumberOfPeriods1a(c)
           /\ numberOfPeriods2a' = NumberOfPeriods2a(c)
           /\ numberOfPeriods3a' = NumberOfPeriods3a(c)
           /\ maxPeriod' = MaxPeriod(c)
           /\ maxDataPeriod' = MaxDataPeriod(c)
           /\ periodToTimeStep' = pts
           /\ modelPeriodToYear' = w.p2y
           /\ yearToModelPeriod' = d.y2p
           /\ dataOffset' = d.off
           /\ dataPeriodToModelPeriod' = d.d2m
           /\ mainLog' = SetWarnings(c)
    /\ pc' = "finalized"
    /\ call' = [op |-> "set", at |-> pc, arg |-> 0, ret |-> 0]
    /\ UNCHANGED config

\* The years getyr_to_per is asked about: the modeled span, the data grid,
\* one year on either side, and the year 1800 of scenario C.
QueryYears ==
    ((startYear - 1)..((IF dataEndYear > endYear THEN dataEndYear ELSE endYear) + 1))
    \cup {1800}

\* Variant: the lookup is yearToModelPeriod[ year ], which inserts a
\* missing year with period 0.
GetYrToPer_insert(year) ==
    /\ pc = "finalized"
    /\ yearToModelPeriod' = MapTouch(yearToModelPeriod, year)
    /\ call' = [op |-> "getyr_to_per", at |-> pc, arg |-> year,
                ret |-> yearToModelPeriod'[year]]
    /\ mainLog' = <<>>
    /\ UNCHANGED <<config, numberOfPeriods1, numberOfPeriods1a,
                   numberOfPeriods2, numberOfPeriods2a, numberOfPeriods3,
                   numberOfPeriods3a, maxPeriod, maxDataPeriod,
                   periodToTimeStep, modelPeriodToYear, dataOffset,
                   dataPeriodToModelPeriod, pc>>

\* Modeltime::getyr_to_per( year ), once the object is finalized.
GetYrToPer(year) ==
    /\ pc = "finalized"
    /\ call' = [op |-> "getyr_to_per", at |-> pc, arg |-> year,
                ret |-> getyr_to_per(yearToModelPeriod, year)]
    /\ mainLog' = getyr_to_per_log(yearToModelPeriod, year)
    /\ UNCHANGED <<config, derived, pc>>

\* Modeltime::getBasePeriod(): getyr_to_per( startYear ).
GetBasePeriod ==
    /\ pc = "finalized"
    /\ call' = [op |-> "getBasePeriod", at |-> pc, arg |-> 0,
                ret |-> getyr_to_per(yearToModelPeriod, startYear)]
    /\ mainLog' = getyr_to_per_log(yearToModelPeriod, startYear)
    /\ UNCHANGED <<config, derived, pc>>

\* Modeltime::getStartYear()
GetStartYear ==
    /\ pc = "finalized"
    /\ call' = [op |-> "getStartYear", at |-> pc, arg |-> 0,
                ret |-> startYear]
    /\ mainLog' = <<>>
    /\ UNCHANGED <<config, derived, pc>>

\* Modeltime::getEndYear()
GetEndYear ==
    /\ pc = "finalized"
    /\ call' = [op |-> "getEndYear", at |-> pc, arg |-> 0, ret |-> endYear]
    /\ mainLog' = <<>>
    /\ UNCHANGED <<config, derived, pc>>

\* What an int read past the end of a vector may hold.
Indeterminate == {-1, 0, 1}

\* The three elements toDebugXML writes for a period, lines 143-147:
\* periodToTimeStep[ period ], dataOffset[ period ], modelPeriodToYear[ period ].
DebugElements(period, off) ==
    <<periodToTimeStep[period], off, modelPeriodToYear[period]>>

\* Modeltime::toDebugXML( period, out, tabs ) for a model period, once the
\* object is finalized; call.ret is what it writes for the three vectors.
\* operator[] is unchecked: reading dataOffset[ period ] with period >=
\* dataOffset.size() is undefined behaviour, which here yields an
\* indeterminate int or ends the program.
ToDebugXML(period) ==
    /\ pc = "finalized"
    /\ \/ /\ period \in DOMAIN dataOffset
          /\ call' = [op |-> "toDebugXML", at |-> pc, arg |-> period,
                      ret |-> DebugElements(period, dataOffset[period])]
          /\ pc' = pc
       \/ /\ period \notin DOMAIN dataOffset
          /\ \E g \in Indeterminate :
                call' = [op |-> "toDebugXML", at |-> pc, arg |-> period,
                         ret |-> DebugElements(period, g)]
          /\ pc' = pc
       \/ /\ period \notin DOMAIN dataOffset
          /\ call' = [op |-> "toDebugXML", at |-> pc, arg |-> period,
                      ret |-> <<>>]
          /\ pc' = "crashed"
    /\ mainLog' = <<>>
    /\ UNCHANGED <<config, derived>>

Next ==
    \/ XMLParse
    \/ Set
    \/ \E year \in QueryYears : GetYrToPer(year)
    \/ GetBasePeriod
    \/ GetStartYear
    \/ GetEndYear
    \/ \E period \in 0..(maxPeriod - 1) : ToDebugXML(period)

Spec == Init /\ [][Next]_vars

----------------------------------------------------------------------------
(* Properties.                                                             *)

Finalized == pc = "finalized"

\* startYear < interYear1 < interYear2 < endYear, positive steps,
\* dataTimeStep >= 1, dataEndYear >= startYear.
ValidConfig ==
    /\ startYear < interYear1 /\ interYear1 < interYear2 /\ interYear2 < endYear
    /\ timeStep1 >= 1 /\ timeStep2 >= 1 /\ timeStep3 >= 1
    /\ dataTimeStep >= 1
    /\ dataEndYear >= startYear

\* An era of span years is evenly divisible by step.
Even(span, step) == \E q \in 0..span : q * step = span

\* n is the number of full steps of length step in span years.
FullSteps(n, span, step) == n * step <= span /\ span < (n + 1) * step

SomeEraUneven ==
    \/ ~Even(interYear1 - startYear, timeStep1)
    \/ ~Even(interYear2 - interYear1, timeStep2)
    \/ ~Even(endYear - interYear2, timeStep3)

\* v[lo] + ... + v[hi - 1]
RECURSIVE SumVec(_, _, _)
SumVec(v, lo, hi) == IF lo < hi THEN v[lo] + SumVec(v, lo + 1, hi) ELSE 0

IsVec(v, n) == DOMAIN v = 0..(n - 1)

\* C1 as stated: after set(), the sum of all maxPeriod entries of
\* periodToTimeStep, the entry of period 0 included, is endYear - startYear.
C1_SumOfAllSteps ==
    (Finalized /\ ValidConfig) =>
        /\ IsVec(periodToTimeStep, maxPeriod)
        /\ SumVec(periodToTimeStep, 0, maxPeriod) = endYear - startYear

\* C1 amended: after set(), the entries of periodToTimeStep for periods
\* 1..maxPeriod-1 sum to endYear - startYear; the entry of period 0 is
\* timeStep1, so all maxPeriod entries sum to endYear - startYear + timeStep1.
C1_SumOfStepsAfterBase ==
    (Finalized /\ ValidConfig) =>
        /\ IsVec(periodToTimeStep, maxPeriod)
        /\ SumVec(periodToTimeStep, 1, maxPeriod) = endYear - startYear
        /\ periodToTimeStep[0] = timeStep1
        /\ SumVec(periodToTimeStep, 0, maxPeriod) = endYear - startYear + timeStep1

C1_Witness ==
    /\ Finalized /\ ValidConfig
    /\ ~Even(interYear1 - startYear, timeStep1)
    /\ ~Even(endYear - interYear2, timeStep3)
    /\ maxPeriod >= 5
    /\ SumVec(periodToTimeStep, 1, maxPeriod) = endYear - startYear

\* C2 as stated: after set(), numberOfPeriodsN of each era N = 1, 2, 3 is the
\* integer quotient of the era's span by its step; 7 years by 5 give
\* numberOfPeriods1 = 1 and numberOfPeriods1a = 2, 15 years by 5 give 3.
C2_CountsAreQuotients ==
    (Finalized /\ ValidConfig) =>
        /\ FullSteps(numberOfPeriods1, interYear1 - startYear, timeStep1)
        /\ FullSteps(numberOfPeriods2, interYear2 - interYear1, timeStep2)
        /\ FullSteps(numberOfPeriods3, endYear - interYear2, timeStep3)
        /\ (Cur = ScenarioB => numberOfPeriods1 = 1 /\ numberOfPeriods1a = 2)
        /\ (Cur = ScenarioA => numberOfPeriods1 = 3)

\* C2 amended: after set(), numberOfPeriods1 is the quotient of era 1 plus
\* one (the base period is counted in era 1), numberOfPeriods2 and
\* numberOfPeriods3 are the quotients of eras 2 and 3; 7 years by 5 give
\* numberOfPeriods1 = 2 and numberOfPeriods1a = 3, 15 years by 5 give 4.
C2_CountsWithBasePeriod ==
    (Finalized /\ ValidConfig) =>
        /\ FullSteps(numberOfPeriods1 - 1, interYear1 - startYear, timeStep1)
        /\ FullSteps(numberOfPeriods2, interYear2 - interYear1, timeStep2)
        /\ FullSteps(numberOfPeriods3, endYear - interYear2, timeStep3)
        /\ (Cur = ScenarioB => numberOfPeriods1 = 2 /\ numberOfPeriods1a = 3)
        /\ (Cur = ScenarioA => numberOfPeriods1 = 4)

C2_Witness ==
    /\ Finalized /\ Cur = ScenarioB
    /\ numberOfPeriods1 = 2 /\ numberOfPeriods1a = 3
    /\ numberOfPeriods2 = 2 /\ numberOfPeriods3 = 2

\* C3: after set(), modelPeriodToYear has maxPeriod entries, starts at
\* startYear, is strictly increasing and ends at endYear, uneven eras included.
C3_YearsReachEndYear ==
    (Finalized /\ ValidConfig) =>
        /\ IsVec(modelPeriodToYear, maxPeriod)
        /\ maxPeriod >= 1
        /\ modelPeriodToYear[0] = startYear
        /\ \A i \in 1..(maxPeriod - 1) :
               modelPeriodToYear[i - 1] < modelPeriodToYear[i]
        /\ modelPeriodToYear[maxPeriod - 1] = endYear

C3_Witness ==
    /\ Finalized /\ ValidConfig
    /\ ~Even(interYear2 - interYear1, timeStep2)
    /\ ~Even(endYear - interYear2, timeStep3)
    /\ maxPeriod >= 5
    /\ modelPeriodToYear[maxPeriod - 1] = endYear

\* C4: round trip.  After set(), getyr_to_per of the year of every period i
\* in [0, maxPeriod) is i and logs nothing: as the map stands, and as the
\* calls answer; getBasePeriod() is 0, getyr_to_per(startYear) is 0 and
\* getyr_to_per(endYear) is maxPeriod - 1.
C4_RoundTrip ==
    (Finalized /\ ValidConfig) =>
        /\ \A i \in 0..(maxPeriod - 1) :
             /\ getyr_to_per(yearToModelPeriod, modelPeriodToYear[i]) = i
             /\ getyr_to_per_log(yearToModelPeriod, modelPeriodToYear[i]) = <<>>
             /\ (call.op = "getyr_to_per" /\ call.arg = modelPeriodToYear[i])
                    => (call.ret = i /\ mainLog = <<>>)
        /\ (call.op = "getyr_to_per" /\ call.arg = startYear) => call.ret = 0
        /\ (call.op = "getyr_to_per" /\ call.arg = endYear)
               => call.ret = maxPeriod - 1
        /\ call.op = "getBasePeriod" => (call.ret = 0 /\ mainLog = <<>>)

C4_Witness ==
    /\ Finalized /\ ValidConfig /\ SomeEraUneven
    /\ maxPeriod >= 5
    /\ call.op = "getyr_to_per"
    /\ call.arg = modelPeriodToYear[maxPeriod - 2]
    /\ call.arg > startYear + maxPeriod - 2
    /\ call.ret = maxPeriod - 2

\* C5: forward attribution and coverage.  After set(), every year of
\* [startYear, endYear] is a key of yearToModelPeriod with a value in
\* [0, maxPeriod), and every year y with modelPeriodToYear[i-1] < y <=
\* modelPeriodToYear[i] maps to period i.
C5_ForwardAttribution ==
    (Finalized /\ ValidConfig) =>
        /\ \A y \in startYear..endYear :
             /\ y \in DOMAIN yearToModelPeriod
             /\ yearToModelPeriod[y] \in 0..(maxPeriod - 1)
        /\ \A i \in 1..(maxPeriod - 1) :
             \A y \in (modelPeriodToYear[i - 1] + 1)..modelPeriodToYear[i] :
                 yearToModelPeriod[y] = i

\* A period three years or more after the one before it, whose years
\* strictly between the two are keys of the map.
C5_Witness ==
    /\ Finalized /\ ValidConfig
    /\ \E i \in 1..(maxPeriod - 1) :
         /\ modelPeriodToYear[i] >= modelPeriodToYear[i - 1] + 3
         /\ yearToModelPeriod[modelPeriodToYear[i - 1] + 1] = i
         /\ yearToModelPeriod[modelPeriodToYear[i - 1] + 2] = i

\* C6: after set(), getyr_to_per of any year outside [startYear, endYear]
\* logs an ERROR and returns 0, whatever dataEndYear and dataTimeStep are.
C6_MissOutsideSpan ==
    (/\ Finalized /\ ValidConfig
     /\ call.op = "getyr_to_per"
     /\ (call.arg < startYear \/ call.arg > endYear))
        => /\ call.ret = 0
           /\ mainLog = <<[level |-> "ERROR", year |-> call.arg]>>

\* C7: after set(), numberOfPeriodsNa is numberOfPeriodsN for an evenly
\* divisible era and numberOfPeriodsN + 1 otherwise, and maxPeriod is the sum
\* of the three numberOfPeriodsNa.
C7_RemainderPeriods ==
    (Finalized /\ ValidConfig) =>
        /\ numberOfPeriods1a = numberOfPeriods1
             + (IF Even(interYear1 - startYear, timeStep1) THEN 0 ELSE 1)
        /\ numberOfPeriods2a = numberOfPeriods2
             + (IF Even(interYear2 - interYear1, timeStep2) THEN 0 ELSE 1)
        /\ numberOfPeriods3a = numberOfPeriods3
             + (IF Even(endYear - interYear2, timeStep3) THEN 0 ELSE 1)
        /\ maxPeriod = numberOfPeriods1a + numberOfPeriods2a + numberOfPeriods3a

C7_Witness ==
    /\ Finalized /\ ValidConfig
    /\ Even(interYear1 - startYear, timeStep1) /\ timeStep1 > 1
    /\ ~Even(interYear2 - interYear1, timeStep2)
    /\ numberOfPeriods1a = numberOfPeriods1
    /\ numberOfPeriods2a = numberOfPeriods2 + 1

\* C8: set() is idempotent.  A set() invoked on a finalized object, the
\* configuration unchanged, leaves every piece of derived state as it was.
C8_SetIdempotent ==
    [][(call'.op = "set" /\ call'.at = "finalized") => derived' = derived]_vars

\* set() has run a second time, on a map that holds data-grid years past
\* endYear and with a remainder period in the tables.
C8_Witness ==
    /\ Finalized /\ ValidConfig /\ SomeEraUneven
    /\ call.op = "set" /\ call.at = "finalized"
    /\ \E y \in DOMAIN yearToModelPeriod : y > endYear
    /\ maxDataPeriod # maxPeriod

\* C9: after set(), dataPeriodToModelPeriod has maxDataPeriod =
\* (dataEndYear - startYear) / dataTimeStep + 1 entries and is non-decreasing,
\* also when dataEndYear exceeds endYear.
C9_DataPeriodsNonDecreasing ==
    (Finalized /\ ValidConfig) =>
        /\ FullSteps(maxDataPeriod - 1, dataEndYear - startYear, dataTimeStep)
        /\ IsVec(dataPeriodToModelPeriod, maxDataPeriod)
        /\ \A i \in 0..(maxDataPeriod - 2) :
               dataPeriodToModelPeriod[i] <= dataPeriodToModelPeriod[i + 1]

\* The data grid and the model grid coincide.
GridsCoincide ==
    /\ timeStep1 = dataTimeStep /\ timeStep2 = dataTimeStep
    /\ timeStep3 = dataTimeStep
    /\ ~SomeEraUneven
    /\ dataEndYear = endYear

\* C10: data alignment.  After set() on coinciding grids, dataOffset[i] = 0
\* and dataPeriodToModelPeriod[i] = i for every data period i.
C10_DataAlignment ==
    (Finalized /\ ValidConfig /\ GridsCoincide) =>
        /\ IsVec(dataOffset, maxDataPeriod)
        /\ IsVec(dataPeriodToModelPeriod, maxDataPeriod)
        /\ \A i \in 0..(maxDataPeriod - 1) :
               dataOffset[i] = 0 /\ dataPeriodToModelPeriod[i] = i

C10_Witness ==
    /\ Finalized /\ ValidConfig /\ GridsCoincide
    /\ dataTimeStep > 1
    /\ maxDataPeriod >= 4
    /\ dataOffset[maxDataPeriod - 1] = 0
    /\ dataPeriodToModelPeriod[maxDataPeriod - 1] = maxDataPeriod - 1

\* The number of messages of log that are WARNINGs about era e.
WarningsFor(log, e) ==
    Cardinality({k \in 1..Len(log) : log[k] = [level |-> "WARNING", era |-> e]})

UnevenEras ==
    {e \in {1, 2, 3} :
        \/ e = 1 /\ ~Even(interYear1 - startYear, timeStep1)
        \/ e = 2 /\ ~Even(interYear2 - interYear1, timeStep2)
        \/ e = 3 /\ ~Even(endYear - interYear2, timeStep3)}

\* Every table set() fills has its size and period 0 is in the map.
DerivedPopulated ==
    /\ maxPeriod >= 1 /\ maxDataPeriod >= 1
    /\ IsVec(periodToTimeStep, maxPeriod)
    /\ IsVec(modelPeriodToYear, maxPeriod)
    /\ IsVec(dataOffset, maxDataPeriod)
    /\ IsVec(dataPeriodToModelPeriod, maxDataPeriod)
    /\ startYear \in DOMAIN yearToModelPeriod
    /\ endYear \in DOMAIN yearToModelPeriod

\* C11: one set() call logs exactly one WARNING for each era that is not
\* evenly divisible by its step and none for an evenly divisible era, and
\* nothing else; in every case set() completes and fills the derived state.
C11_OneWarningPerUnevenEra ==
    (ValidConfig /\ call.op = "set") =>
        /\ \A e \in {1, 2, 3} :
               WarningsFor(mainLog, e) = (IF e \in UnevenEras THEN 1 ELSE 0)
        /\ Len(mainLog) = Cardinality(UnevenEras)
        /\ Finalized
        /\ DerivedPopulated

C11_Witness ==
    /\ ValidConfig /\ call.op = "set" /\ Finalized
    /\ UnevenEras = {2, 3}
    /\ mainLog = <<[level |-> "WARNING", era |-> 2],
                   [level |-> "WARNING", era |-> 3]>>
    /\ DerivedPopulated

Getters == {"getyr_to_per", "getBasePeriod", "getStartYear", "getEndYear"}

\* C12: after set(), the derived state is read-only.  Any call of
\* getBasePeriod, getStartYear, getEndYear or getyr_to_per, on a hit or a
\* miss, leaves the configuration and all derived state (the key set of
\* yearToModelPeriod included) unchanged, and getyr_to_per called again on
\* the same year returns the same result.
C12_ReadsChangeNothing ==
    [][(pc = "finalized" /\ call'.op \in Getters) =>
          /\ config' = config
          /\ derived' = derived
          /\ DOMAIN yearToModelPeriod' = DOMAIN yearToModelPeriod
          /\ pc' = pc
          /\ (call.op = "getyr_to_per" /\ call'.op = "getyr_to_per"
                /\ call'.arg = call.arg) => call'.ret = call.ret]_vars

\* getyr_to_per has answered a miss, and the year is still no key of the map.
C12_Witness ==
    /\ Finalized /\ ValidConfig
    /\ call.op = "getyr_to_per"
    /\ call.arg > endYear
    /\ call.arg \notin DOMAIN yearToModelPeriod
    /\ call.ret = 0
    /\ mainLog = <<[level |-> "ERROR", year |-> call.arg]>>

\* The years an era of span years leaves after its full steps of length step.
Leftover(span, step) ==
    CHOOSE r \in 0..(step - 1) : \E q \in 0..span : q * step + r = span

\* The era (1, 2 or 3) whose periods hold position i of periodToTimeStep,
\* and whether position i is the era's remainder period.
EraAt(i) ==
    IF i < numberOfPeriods1a THEN 1
    ELSE IF i < numberOfPeriods1a + numberOfPeriods2a THEN 2 ELSE 3

IsRemainderAt(i) ==
    \/ numberOfPeriods1 <= i /\ i < numberOfPeriods1a
    \/ numberOfPeriods1a + numberOfPeriods2 <= i
         /\ i < numberOfPeriods1a + numberOfPeriods2a
    \/ numberOfPeriods1a + numberOfPeriods2a + numberOfPeriods3 <= i

NominalStep(e) == IF e = 1 THEN timeStep1 ELSE IF e = 2 THEN timeStep2 ELSE timeStep3

EraSpan(e) ==
    IF e = 1 THEN interYear1 - startYear
    ELSE IF e = 2 THEN interYear2 - interYear1 ELSE endYear - interYear2

\* C13: after set(), periodToTimeStep has exactly maxPeriod entries, laid out
\* as era 1's full steps, era 1's remainder if any, era 2's full steps, era
\* 2's remainder if any, era 3's full steps, era 3's remainder if any; a
\* full-step entry is the era's nominal step, a remainder entry the era's
\* leftover length, and every entry is >= 1 and <= the nominal step of the
\* era at its position.
C13_StepLayout ==
    (Finalized /\ ValidConfig) =>
        /\ IsVec(periodToTimeStep, maxPeriod)
        /\ maxPeriod = numberOfPeriods1a + numberOfPeriods2a + numberOfPeriods3a
        /\ \A e \in {1, 2, 3} :
               Cardinality({i \in 0..(maxPeriod - 1) :
                               EraAt(i) = e /\ IsRemainderAt(i)})
                 = (IF e \in UnevenEras THEN 1 ELSE 0)
        /\ \A i \in 0..(maxPeriod - 1) :
             /\ periodToTimeStep[i] =
                  (IF IsRemainderAt(i)
                   THEN Leftover(EraSpan(EraAt(i)), NominalStep(EraAt(i)))
                   ELSE NominalStep(EraAt(i)))
             /\ periodToTimeStep[i] >= 1
             /\ periodToTimeStep[i] <= NominalStep(EraAt(i))

\* All three eras have full steps and a remainder period: scenario B, whose
\* table is 5, 5, 2, 5, 5, 3, 10, 10, 5.
C13_Witness ==
    /\ Finalized /\ Cur = ScenarioB
    /\ maxPeriod = 9
    /\ periodToTimeStep[2] = 2 /\ periodToTimeStep[3] = 5
    /\ periodToTimeStep[5] = 3 /\ periodToTimeStep[6] = 10
    /\ periodToTimeStep[8] = 5

\* C14: after set() with dataEndYear <= endYear and maxDataPeriod #
\* maxPeriod, dataOffset[i] is dataTimeStep / periodToTimeStep[m], m the
\* model period of data period i, and that is the number of model periods
\* that elapse over one data-period step: dataOffset[i] =
\* dataPeriodToModelPeriod[i] - dataPeriodToModelPeriod[i-1] for i >= 1.
C14_OffsetIsPeriodsElapsed ==
    (Finalized /\ ValidConfig /\ dataEndYear <= endYear
       /\ maxDataPeriod # maxPeriod) =>
        /\ IsVec(dataOffset, maxDataPeriod)
        /\ IsVec(dataPeriodToModelPeriod, maxDataPeriod)
        /\ \A i \in 1..(maxDataPeriod - 1) :
               dataOffset[i] =
                   dataPeriodToModelPeriod[i] - dataPeriodToModelPeriod[i - 1]

\* C15: after set(), toDebugXML(period) with a model period in [0, maxPeriod)
\* reads periodToTimeStep, dataOffset and modelPeriodToYear only at indices
\* within the bounds of each of them.
C15_DebugReadsInBounds ==
    (ValidConfig /\ call.op = "toDebugXML" /\ call.arg \in 0..(maxPeriod - 1)) =>
        /\ call.arg \in DOMAIN periodToTimeStep
        /\ call.arg \in DOMAIN dataOffset
        /\ call.arg \in DOMAIN modelPeriodToYear
        /\ pc = "finalized"
        /\ call.ret = <<periodToTimeStep[call.arg], dataOffset[call.arg],
                        modelPeriodToYear[call.arg]>>

====
